---- MODULE Spec2Model ----
(***************************************************************************)
(* Butler & Co Revenue Intelligence Platform API (src/server.js).           *)
(*                                                                         *)
(* One Node.js process, five in-memory Maps, an Express route table.  A    *)
(* handler runs to completion except where it awaits (bcrypt.hash in       *)
(* register, bcrypt.compare in login) or defers work (setTimeout in        *)
(* insights/generate, the bcrypt.hash promise of seedInitialData).  Every  *)
(* such suspension point is a separate step of the model.  A protected     *)
(* route is two steps of one turn of the event loop: authenticateToken,    *)
(* which sets req.user and calls next(), then the route's handler.         *)
(*                                                                         *)
(* Response fields that no store depends on and that are products of       *)
(* floating-point constants (avg_daily_revenue, mrr, arr, by_period,       *)
(* predicted_revenue and its bounds, the churn scores) are not part of the *)
(* modelled response bodies.                                               *)
(***************************************************************************)
EXTENDS Integers, Sequences, FiniteSets, TLC

VARIABLES
    now,            \* Date.now(), in milliseconds since the process started
    advances,       \* how many times the clock has been advanced
    nreq,           \* requests so far that wrote to a store or scheduled a write
    crashed,        \* the process died of an uncaught exception
    users,          \* Map email -> user record
    clients,        \* Map client id -> client record
    revenueRecords, \* Map record id -> revenue record
    integrations,   \* Map integration id -> integration record
    insights,       \* Map insight id -> insight record
    seedPending,    \* the demo user's bcrypt.hash promise has not resolved yet
    regs,           \* register handlers suspended at bcrypt.hash
    logins,         \* login handlers suspended at bcrypt.compare
    jobs,           \* setTimeout callbacks of insights/generate, in arrival order
    tokens,         \* every token issued so far (held by the callers)
    registered,     \* history: emails for which a register request answered 201
    passed,         \* the request that authenticateToken has handed to its handler
    resp            \* the response written in this turn of the event loop

vars == <<now, advances, nreq, crashed, users, clients, revenueRecords,
          integrations, insights, seedPending, regs, logins, jobs, tokens,
          registered, passed, resp>>

\* everything but the request in hand and its response
state == <<now, advances, nreq, crashed, users, clients, revenueRecords,
           integrations, insights, seedPending, regs, logins, jobs, tokens, registered>>

----------------------------------------------------------------------------
(* Bounds of the model *)

\* requests that write to a store or schedule a write (a register or login
\* request that reaches its await counts as one), in one run
MaxRequests == 3
\* clock advances in one run
MaxAdvances == 1
\* the largest number in a `periods` query parameter
MaxPeriods == 12

(* Program constants *)

\* setTimeout(..., 2000)
InsightDelayMs == 2000
\* expiresIn: '24h'
TokenTtlSec == 86400
\* Math.max(0.95 - (i * 0.05), 0.70), in hundredths
ConfidenceStart == 95
ConfidenceStep == 5
ConfidenceFloor == 70
\* const { periods = 6 } = req.query
DefaultPeriods == 6
\* const { limit = 10 } = req.query
DefaultLimit == 10
\* confidence: 88 of a generated insight
GeneratedConfidence == 88

----------------------------------------------------------------------------
(* Values *)

\* An id built from a prefix, Date.now() and a random suffix. Fixed ids and ids
\* without a suffix have r = 0, fixed ids have t = 0, seeded ids carry their
\* index in t.
MkId(p, t, r) == [p |-> p, t |-> t, r |-> r]
NoId == MkId("", 0, 0)

\* a random suffix that repeats
RandomSuffixSame(n) == 0

\* Math.random().toString(36).substr(2, 9): nine base-36 digits, modelled as
\* never repeating: the n-th request that draws one for an id of some prefix
\* draws n.
RandomSuffix(n) == n

DemoClientId == MkId("client-demo-001", 0, 0)
DemoEmail == "demo@butlerco.com"
DemoPassword == "demo123"

\* request fields: "" stands for an absent (or empty) field;
\* "<123>" is a JSON number, a truthy non-string
OtherEmail == "a@x.com"
IsString(p) == p # "<123>"

Truthy(x) == x # ""
TruthyId(x) == x # NoId

\* A JS number: an integer, or NaN
Num(v) == [nan |-> FALSE, v |-> v]
NaN == [nan |-> TRUE, v |-> 0]
Plus(a, b) == IF a.nan \/ b.nan THEN NaN ELSE Num(a.v + b.v)

Abs(x) == IF x < 0 THEN -x ELSE x
Sgn(x) == IF x < 0 THEN -1 ELSE IF x > 0 THEN 1 ELSE 0
Max(a, b) == IF a >= b THEN a ELSE b

\* n / d rounded to the nearest integer, a tie away from zero (d # 0)
RoundHalfAway(n, d) == Sgn(n) * Sgn(d) * ((2 * Abs(n) + Abs(d)) \div (2 * Abs(d)))

\* (n / d * 100).toFixed(1) of two JS numbers: the string "NaN", "Infinity" or
\* "-Infinity", or a decimal with one digit, kept as a number of tenths
Fixed(k, tenths) == [k |-> k, tenths |-> tenths]
PercentToFixed1(n, d) ==
    IF n.nan \/ d.nan THEN Fixed("NaN", 0)
    ELSE IF d.v = 0 THEN
        IF n.v = 0 THEN Fixed("NaN", 0)
        ELSE IF n.v > 0 THEN Fixed("Infinity", 0) ELSE Fixed("-Infinity", 0)
    ELSE Fixed("num", RoundHalfAway(n.v * 1000, d.v))

----------------------------------------------------------------------------
(* Maps *)

MapHas(m, k) == k \in DOMAIN m
MapSet(m, k, v) == [x \in DOMAIN m \cup {k} |-> IF x = k THEN v ELSE m[x]]
MapValues(m) == {m[k] : k \in DOMAIN m}
EmptyMap == [x \in {} |-> 0]

----------------------------------------------------------------------------
(* bcryptjs and jsonwebtoken *)

\* bcrypt.hash(password, 10): a one-way hash that bcrypt.compare can match
BcryptHash(p) == [alg |-> "bcrypt", of |-> p]
BcryptCompare(p, h) == h.of = p

JwtSecret == "butler-revenue-intelligence-secret-2026"

NowSec(t) == t \div 1000

\* jwt.sign(payload, JWT_SECRET, {expiresIn: '24h'})
JwtSign(user, t) ==
    [userId |-> user.id, email |-> user.email, role |-> user.role,
     clientId |-> user.clientId, iat |-> NowSec(t),
     exp |-> NowSec(t) + TokenTtlSec, sig |-> JwtSecret]

\* A token that no jwt.sign of this server produced: a wrong signature
ForgedToken ==
    [userId |-> MkId("user-demo-001", 0, 0), email |-> DemoEmail, role |-> "admin",
     clientId |-> DemoClientId, iat |-> 0, exp |-> 10 * TokenTtlSec, sig |-> "forged"]

\* jwt.verify(token, JWT_SECRET, cb): err, or the decoded payload
JwtVerify(tok, t) ==
    IF tok.sig # JwtSecret THEN [err |-> TRUE, user |-> tok]
    ELSE IF NowSec(t) >= tok.exp THEN [err |-> TRUE, user |-> tok]
    ELSE [err |-> FALSE, user |-> tok]

\* The Authorization header, split on ' '
NoToken ==
    [userId |-> NoId, email |-> "", role |-> "", clientId |-> NoId, iat |-> 0, exp |-> 0,
     sig |-> ""]
NoHeader == [kind |-> "absent", scheme |-> "", tok |-> NoToken]
OneWord == [kind |-> "oneword", scheme |-> "Bearer", tok |-> NoToken]
TwoWords(s, tok) == [kind |-> "two", scheme |-> s, tok |-> tok]
Schemes == {"Bearer", "Basic"}
Headers == {NoHeader, OneWord}
           \cup {TwoWords(s, tok) : s \in Schemes, tok \in tokens \cup {ForgedToken}}

\* authHeader && authHeader.split(' ')[1]
HeaderToken(h) == IF h.kind = "two" THEN [some |-> TRUE, tok |-> h.tok]
                  ELSE [some |-> FALSE, tok |-> h.tok]

\* 0: next() was called and req.user is set
authenticateToken(h, t) ==
    LET ht == HeaderToken(h) IN
    IF ~ht.some THEN [code |-> 401, user |-> h.tok]
    ELSE LET v == JwtVerify(ht.tok, t) IN
         IF v.err THEN [code |-> 403, user |-> h.tok]
         ELSE [code |-> 0, user |-> v.user]

\* the request between authenticateToken and its handler: its header and req.user
Passed(h, user) == [some |-> TRUE, hdr |-> h, user |-> user]
NoPassed == [some |-> FALSE, hdr |-> NoHeader, user |-> NoToken]

----------------------------------------------------------------------------
(* Responses *)

NoBody == [k |-> "none"]
NoReq == [k |-> "none"]
\* ep: the endpoint; hdr: the Authorization header of a request that
\* authenticateToken answered; user: req.user of a request that a protected
\* handler answered; req: the request's other inputs; owners: the tenant ids of
\* the records in the body
Response(ep, status, h, user, req, owners, body) ==
    [ep |-> ep, status |-> status, hdr |-> h, user |-> user, req |-> req,
     owners |-> owners, body |-> body]
NoResponse == Response("none", 0, NoHeader, NoToken, NoReq, {}, NoBody)

\* the event loop is between two turns: no handler or callback is running
Idle == ~crashed /\ resp = NoResponse /\ ~passed.some

\* authenticateToken has called next(): the handler of the route runs
Routed == ~crashed /\ resp = NoResponse /\ passed.some
ReqUser == passed.user

AuthedEndpoints ==
    {"summary", "forecast", "createRecord", "listClients", "getClient", "createClient",
     "latestInsights", "generateInsight", "listIntegrations", "connectIntegration",
     "attribution", "seoRankings", "churn"}

----------------------------------------------------------------------------
(* seedInitialData *)

\* sources[Math.floor(Math.random() * sources.length)]
SeedSources == {"organic"}
\* Math.round(Math.random() * 5000 + 500)
SeedAmounts == {5500}
\* insightTypes[Math.floor(Math.random() * insightTypes.length)]
SeedInsightTypes == {"warning"}
\* Math.round(Math.random() * 20 + 75)
SeedConfidences == {95}
\* the indices of the seeded revenue records and insights that the model keeps
SeedRecordIdx == {0}
SeedInsightIdx == {0}

DemoClient == [id |-> DemoClientId, company_name |-> "TechCorp Industries"]
DemoUser ==
    [id |-> MkId("user-demo-001", 0, 0), email |-> DemoEmail,
     password |-> BcryptHash(DemoPassword), clientId |-> DemoClientId, role |-> "admin"]

SeedRecordIds == {MkId("record-seed", i, 0) : i \in SeedRecordIdx}
SeedInsightIds == {MkId("insight-seed", i, 0) : i \in SeedInsightIdx}

Init ==
    /\ now = 0
    /\ advances = 0
    /\ nreq = 0
    /\ crashed = FALSE
    /\ users = EmptyMap
    /\ clients = MapSet(EmptyMap, DemoClientId, DemoClient)
    /\ \E src \in [SeedRecordIds -> SeedSources], amt \in [SeedRecordIds -> SeedAmounts] :
         revenueRecords =
           [id \in SeedRecordIds |->
              [id |-> id, clientId |-> DemoClientId, source |-> src[id],
               amount |-> Num(amt[id])]]
    /\ integrations = EmptyMap
    /\ \E ty \in [SeedInsightIds -> SeedInsightTypes],
          cf \in [SeedInsightIds -> SeedConfidences] :
         insights =
           [id \in SeedInsightIds |->
              [id |-> id, clientId |-> DemoClientId, type |-> ty[id],
               confidence |-> cf[id]]]
    /\ seedPending = TRUE
    /\ regs = {}
    /\ logins = {}
    /\ jobs = <<>>
    /\ tokens = {}
    /\ registered = {}
    /\ passed = NoPassed
    /\ resp = NoResponse

\* bcrypt.hash('demo123', 10).then(hash => users.set(demoEmail, {...}))
SeedUserDone ==
    /\ Idle
    /\ seedPending
    /\ seedPending' = FALSE
    /\ users' = MapSet(users, DemoEmail, DemoUser)
    /\ UNCHANGED <<passed, now, advances, nreq, crashed, clients, revenueRecords, integrations,
                   insights, regs, logins, jobs, tokens, registered, resp>>

----------------------------------------------------------------------------
(* The clock and the event loop *)

ClockSteps == {InsightDelayMs, TokenTtlSec * 1000}

Advance(d) ==
    /\ Idle
    /\ advances < MaxAdvances
    /\ advances' = advances + 1
    /\ now' = now + d
    /\ UNCHANGED <<passed, nreq, crashed, users, clients, revenueRecords, integrations, insights,
                   seedPending, regs, logins, jobs, tokens, registered, resp>>

\* res.json(...) has written the response; the event loop takes its next turn
ResponseSent ==
    /\ ~crashed
    /\ resp # NoResponse
    /\ resp' = NoResponse
    /\ UNCHANGED <<passed, now, advances, nreq, crashed, users, clients, revenueRecords,
                   integrations, insights, seedPending, regs, logins, jobs, tokens,
                   registered>>

----------------------------------------------------------------------------
(* POST /api/v1/auth/register *)

\* prior201: a register request for this email had answered 201 when this one
\* arrived; raced: another handler for this email answered 201 while this one was
\* suspended at bcrypt.hash
RegSlot(n, email, password, cid, prior, raced) ==
    [n |-> n, email |-> email, password |-> password, cid |-> cid, prior201 |-> prior,
     raced |-> raced]

RegReq(email, password, prior, raced) ==
    [k |-> "register", email |-> email, password |-> password, prior201 |-> prior,
     raced |-> raced]

\* a register handler without its existence check
UsersHasNever(us, email) == FALSE

\* users.has(email)
UsersHas(us, email) == MapHas(us, email)

\* the handler up to `await bcrypt.hash(password, 10)`
RegisterStart(email, password, cid) ==
    /\ Idle
    /\ nreq < MaxRequests
    /\ LET prior == email \in registered IN
       IF ~Truthy(email) \/ ~Truthy(password) THEN
            /\ nreq' = nreq
            /\ regs' = regs
            /\ resp' = Response("register", 400, NoHeader, NoToken,
                                RegReq(email, password, prior, FALSE), {}, NoBody)
       ELSE IF UsersHas(users, email) THEN
            /\ nreq' = nreq
            /\ regs' = regs
            /\ resp' = Response("register", 409, NoHeader, NoToken,
                                RegReq(email, password, prior, FALSE), {}, NoBody)
       ELSE
            /\ nreq' = nreq + 1
            /\ regs' = regs \cup {RegSlot(nreq', email, password, cid, prior, FALSE)}
            /\ resp' = resp
    /\ UNCHANGED <<passed, now, advances, crashed, users, clients, revenueRecords, integrations,
                   insights, seedPending, logins, jobs, tokens, registered>>

\* the handler from the resolution of bcrypt.hash on
RegisterFinish(q) ==
    /\ Idle
    /\ q \in regs
    /\ IF ~IsString(q.password) THEN
            \* bcrypt.hash rejects ("Illegal arguments"): the catch block answers 500
            /\ regs' = regs \ {q}
            /\ resp' = Response("register", 500, NoHeader, NoToken,
                                RegReq(q.email, q.password, q.prior201, q.raced), {}, NoBody)
            /\ UNCHANGED <<users, tokens, registered>>
       ELSE
            LET user == [id |-> MkId("user", now, RandomSuffix(q.n)), email |-> q.email,
                         password |-> BcryptHash(q.password),
                         clientId |-> IF TruthyId(q.cid) THEN q.cid
                                      ELSE MkId("client", now, 0),
                         role |-> "admin"]
                token == JwtSign(user, now)
                others == {IF o.email = q.email THEN [o EXCEPT !.raced = TRUE] ELSE o :
                             o \in regs \ {q}}
            IN
            /\ users' = MapSet(users, q.email, user)
            /\ tokens' = tokens \cup {token}
            /\ registered' = registered \cup {q.email}
            /\ regs' = others
            /\ resp' = Response("register", 201, NoHeader, NoToken,
                                RegReq(q.email, q.password, q.prior201, q.raced),
                                {user.clientId}, [k |-> "token", token |-> token])
    /\ UNCHANGED <<passed, now, advances, nreq, crashed, clients, revenueRecords, integrations,
                   insights, seedPending, logins, jobs>>

----------------------------------------------------------------------------
(* POST /api/v1/auth/token *)

LoginSlot(n, email, password, user) ==
    [n |-> n, email |-> email, password |-> password, user |-> user]

LoginReq(email, password) == [k |-> "login", email |-> email, password |-> password]

\* the handler up to `await bcrypt.compare(password, user.password)`
LoginStart(email, password) ==
    /\ Idle
    /\ nreq < MaxRequests
    /\ IF ~Truthy(email) \/ ~Truthy(password) THEN
            /\ nreq' = nreq
            /\ logins' = logins
            /\ resp' = Response("login", 400, NoHeader, NoToken, LoginReq(email, password), {}, NoBody)
       ELSE IF ~MapHas(users, email) THEN
            /\ nreq' = nreq
            /\ logins' = logins
            /\ resp' = Response("login", 401, NoHeader, NoToken, LoginReq(email, password), {}, NoBody)
       ELSE
            /\ nreq' = nreq + 1
            /\ logins' = logins \cup {LoginSlot(nreq', email, password, users[email])}
            /\ resp' = resp
    /\ UNCHANGED <<passed, now, advances, crashed, users, clients, revenueRecords, integrations,
                   insights, seedPending, regs, jobs, tokens, registered>>

\* the handler from the resolution of bcrypt.compare on
LoginFinish(q) ==
    /\ Idle
    /\ q \in logins
    /\ logins' = logins \ {q}
    /\ IF ~IsString(q.password) THEN
            \* bcrypt.compare rejects: the catch block answers 500
            /\ resp' = Response("login", 500, NoHeader, NoToken, LoginReq(q.email, q.password),
                                {}, NoBody)
            /\ tokens' = tokens
       ELSE IF ~BcryptCompare(q.password, q.user.password) THEN
            /\ resp' = Response("login", 401, NoHeader, NoToken, LoginReq(q.email, q.password),
                                {}, NoBody)
            /\ tokens' = tokens
       ELSE
            LET token == JwtSign(q.user, now) IN
            /\ tokens' = tokens \cup {token}
            /\ resp' = Response("login", 200, NoHeader, NoToken, LoginReq(q.email, q.password),
                                {q.user.clientId}, [k |-> "token", token |-> token])
    /\ UNCHANGED <<passed, now, advances, nreq, crashed, users, clients, revenueRecords,
                   integrations, insights, seedPending, regs, jobs, registered>>

----------------------------------------------------------------------------
(* authenticateToken in front of every protected route *)

\* The same middleware guards every route of AuthedEndpoints and answers, or
\* calls next(), without looking at the route.
Authenticate(h) ==
    /\ Idle
    /\ LET a == authenticateToken(h, now) IN
       IF a.code # 0 THEN
            /\ resp' = Response("authenticateToken", a.code, h, NoToken, NoReq, {}, NoBody)
            /\ passed' = passed
       ELSE
            /\ passed' = Passed(h, a.user)
            /\ resp' = resp
    /\ UNCHANGED state

----------------------------------------------------------------------------
(* Revenue analytics *)

\* Array.from(revenueRecords.values()).filter(record => record.clientId === clientId)
ClientRecords(recs, cid) == {r \in MapValues(recs) : r.clientId = cid}

\* records.reduce((sum, r) => sum + r.amount, 0)
RECURSIVE SumAmounts(_)
SumAmounts(S) ==
    IF S = {} THEN Num(0)
    ELSE LET r == CHOOSE x \in S : TRUE IN Plus(r.amount, SumAmounts(S \ {r}))

\* Property names that the object literal {} inherits from Object.prototype:
\* bySource[name] is truthy before any assignment, the handler then adds to a
\* property of the inherited function and bySource gets no own property `name`.
InheritedKeys == {"toString"}

\* Object.entries(bySource): source -> revenue
BySource(S) ==
    [src \in {r.source : r \in S} \ InheritedKeys |->
        SumAmounts({r \in S : r.source = src})]

\* revenue / totalRevenue * 100, toFixed(1)
SourcePercentage(revenue, total) == PercentToFixed1(revenue, total)

SummaryBody(cid) ==
    LET S == ClientRecords(revenueRecords, cid)
        total == SumAmounts(S)
        by == BySource(S)
    IN [k |-> "summary", total_revenue |-> total,
        by_source |-> [src \in DOMAIN by |->
                         [revenue |-> by[src],
                          percentage |-> SourcePercentage(by[src], total)]]]

\* GET /api/v1/revenue/summary
Summary ==
    /\ Routed
    /\ passed' = NoPassed
    /\ LET cid == ReqUser.clientId IN
       resp' = Response("summary", 200, NoHeader, ReqUser, NoReq,
                        {r.clientId : r \in ClientRecords(revenueRecords, cid)},
                        SummaryBody(cid))
    /\ UNCHANGED state

\* the query parameter `periods`: absent, or a string that is the digits of n
\* ("3"), the decimal n.5 ("2.5"), or not a number at all ("abc")
PeriodsAbsent == [k |-> "absent", v |-> 0]
PeriodsDigits(n) == [k |-> "digits", v |-> n]
PeriodsHalf(n) == [k |-> "half", v |-> n]
PeriodsText == [k |-> "text", v |-> 0]

\* twice the number that `i <= periods` compares i with (the default 6, or the
\* string converted with ToNumber), or NaN
PeriodsTwice(p) ==
    IF p.k = "absent" THEN Num(2 * DefaultPeriods)
    ELSE IF p.k = "digits" THEN Num(2 * p.v)
    ELSE IF p.k = "half" THEN Num(2 * p.v + 1)
    ELSE NaN

\* the confidence without its floor
ConfidenceNoFloor(i) == ConfidenceStart - i * ConfidenceStep

\* Math.max(0.95 - (i * 0.05), 0.70), in hundredths
Confidence(i) == Max(ConfidenceStart - i * ConfidenceStep, ConfidenceFloor)

\* for (let i = 1; i <= periods; i++) forecast.push({period, ..., confidence})
RECURSIVE ForecastLoop(_, _, _)
ForecastLoop(i, lim, acc) ==
    IF lim.nan \/ 2 * i > lim.v THEN acc
    ELSE ForecastLoop(i + 1, lim,
                      Append(acc, [i |-> i, month |-> i + 2, confidence |-> Confidence(i)]))

\* GET /api/v1/revenue/forecast
Forecast(periods) ==
    /\ Routed
    /\ passed' = NoPassed
    /\ LET cid == ReqUser.clientId IN
       resp' = Response("forecast", 200, NoHeader, ReqUser, [k |-> "forecast", periods |-> periods],
                        {r.clientId : r \in ClientRecords(revenueRecords, cid)},
                        [k |-> "forecast",
                         forecast |-> ForecastLoop(1, PeriodsTwice(periods), <<>>)])
    /\ UNCHANGED state

\* the body field `amount`: absent, a JSON number, or a JSON string that is
\* either digits or not a number at all
AmountAbsent == [k |-> "absent", v |-> 0]
AmountNum(v) == [k |-> "num", v |-> v]
AmountDigits(v) == [k |-> "digits", v |-> v]
AmountText == [k |-> "text", v |-> 0]
TruthyAmount(a) == a.k \in {"digits", "text"} \/ (a.k = "num" /\ a.v # 0)
ParseFloat(a) == IF a.k \in {"num", "digits"} THEN Num(a.v) ELSE NaN

\* POST /api/v1/revenue/records
CreateRecord(date, source, amount) ==
    /\ Routed
    /\ passed' = NoPassed
    /\ LET req == [k |-> "createRecord", date |-> date, source |-> source,
                   amount |-> amount]
       IN
       IF ~Truthy(date) \/ ~TruthyAmount(amount) THEN
            /\ resp' = Response("createRecord", 400, NoHeader, ReqUser, req, {}, NoBody)
            /\ UNCHANGED <<nreq, revenueRecords>>
       ELSE
            /\ nreq < MaxRequests
            /\ nreq' = nreq + 1
            /\ LET record == [id |-> MkId("record", now, RandomSuffix(nreq')),
                              clientId |-> ReqUser.clientId,
                              date |-> date,
                              source |-> IF Truthy(source) THEN source ELSE "direct",
                              amount |-> ParseFloat(amount)]
               IN
               /\ revenueRecords' = MapSet(revenueRecords, record.id, record)
               /\ resp' = Response("createRecord", 201, NoHeader, ReqUser, req, {record.clientId},
                                   [k |-> "record", record |-> record])
    /\ UNCHANGED <<now, advances, crashed, users, clients, integrations, insights,
                   seedPending, regs, logins, jobs, tokens, registered>>

----------------------------------------------------------------------------
(* Client management *)

UnknownClientId == MkId("client-unknown", 0, 0)

\* GET /api/v1/clients
ListClients ==
    /\ Routed
    /\ passed' = NoPassed
    /\ resp' = Response("listClients", 200, NoHeader, ReqUser, NoReq, {c.id : c \in MapValues(clients)},
                        [k |-> "clients", data |-> MapValues(clients)])
    /\ UNCHANGED state

\* a GET /api/v1/clients/:clientId that creates the client it does not find
GetClientOrCreate(cid) ==
    /\ Routed
    /\ passed' = NoPassed
    /\ clients' = MapSet(clients, cid, [id |-> cid, company_name |-> ""])
    /\ resp' = Response("getClient", 200, NoHeader, ReqUser,
                        [k |-> "getClient", clientId |-> cid], {cid},
                        [k |-> "client", client |-> clients'[cid]])
    /\ UNCHANGED <<now, advances, nreq, crashed, users, revenueRecords, integrations,
                   insights, seedPending, regs, logins, jobs, tokens, registered>>

\* GET /api/v1/clients/:clientId
GetClient(cid) ==
    /\ Routed
    /\ passed' = NoPassed
    /\ LET req == [k |-> "getClient", clientId |-> cid] IN
       IF ~MapHas(clients, cid) THEN
            resp' = Response("getClient", 404, NoHeader, ReqUser, req, {}, NoBody)
       ELSE
            resp' = Response("getClient", 200, NoHeader, ReqUser, req, {clients[cid].id},
                             [k |-> "client", client |-> clients[cid]])
    /\ UNCHANGED state

\* POST /api/v1/clients
CreateClient(company_name) ==
    /\ Routed
    /\ passed' = NoPassed
    /\ LET req == [k |-> "createClient", company_name |-> company_name] IN
       IF ~Truthy(company_name) THEN
            /\ resp' = Response("createClient", 400, NoHeader, ReqUser, req, {}, NoBody)
            /\ UNCHANGED <<nreq, clients>>
       ELSE
            /\ nreq < MaxRequests
            /\ nreq' = nreq + 1
            /\ LET client == [id |-> MkId("client", now, RandomSuffix(nreq')),
                              company_name |-> company_name]
               IN
               /\ clients' = MapSet(clients, client.id, client)
               /\ resp' = Response("createClient", 201, NoHeader, ReqUser, req, {client.id},
                                   [k |-> "client", client |-> client])
    /\ UNCHANGED <<now, advances, crashed, users, revenueRecords, integrations,
                   insights, seedPending, regs, logins, jobs, tokens, registered>>

----------------------------------------------------------------------------
(* AI insights *)

\* the order of insights.values(): a Map iterates in insertion order, the seeded
\* insights first, then the generated ones by the time in their id
InsertedBefore(a, b) ==
    \/ a.id.p = "insight-seed" /\ b.id.p # "insight-seed"
    \/ a.id.p = b.id.p /\ a.id.t < b.id.t

\* parseInt(limit): "" is an absent query parameter
LimitOf(limit) == IF limit = "" THEN DefaultLimit ELSE IF limit = "1" THEN 1 ELSE 0

\* array.slice(0, n) of a set ordered by InsertedBefore
SliceFirst(S, n) == {x \in S : Cardinality({y \in S : InsertedBefore(y, x)}) < n}

\* GET /api/v1/insights/latest
LatestInsights(type, limit, min_confidence) ==
    /\ Routed
    /\ passed' = NoPassed
    /\ LET cid == ReqUser.clientId
           own == {x \in MapValues(insights) : x.clientId = cid}
           typed == IF Truthy(type) THEN {x \in own : x.type = type} ELSE own
           sure == {x \in typed : x.confidence >= min_confidence}
           out == SliceFirst(sure, LimitOf(limit))
       IN
       resp' = Response("latestInsights", 200, NoHeader, ReqUser,
                        [k |-> "latestInsights", type |-> type, limit |-> limit,
                         min_confidence |-> min_confidence],
                        {x.clientId : x \in out}, [k |-> "insights", insights |-> out])
    /\ UNCHANGED state

\* focus: what the body field focus_areas is ("array", or "absent")
Job(due, cid, focus, st, at) ==
    [due |-> due, clientId |-> cid, focus |-> focus, state |-> st, firedAt |-> at]

\* POST /api/v1/insights/generate
GenerateInsight(focus) ==
    /\ Routed
    /\ passed' = NoPassed
    /\ nreq < MaxRequests
    /\ nreq' = nreq + 1
    /\ jobs' = Append(jobs, Job(now + InsightDelayMs, ReqUser.clientId, focus,
                                "pending", 0))
    /\ resp' = Response("generateInsight", 202, NoHeader, ReqUser,
                        [k |-> "generateInsight", focus |-> focus], {},
                        [k |-> "job", job |-> Len(jobs) + 1])
    /\ UNCHANGED <<now, advances, crashed, users, clients, revenueRecords,
                   integrations, insights, seedPending, regs, logins, tokens, registered>>

\* The callback of setTimeout(..., 2000). Timers run in the order of their due
\* times, and in the order they were set when these are equal.
TimerFire(j) ==
    /\ Idle
    /\ j \in 1 .. Len(jobs)
    /\ jobs[j].state = "pending"
    /\ now >= jobs[j].due
    /\ \A i \in 1 .. Len(jobs) :
         jobs[i].state = "pending" =>
           jobs[i].due > jobs[j].due \/ (jobs[i].due = jobs[j].due /\ i >= j)
    /\ IF jobs[j].focus # "array" THEN
            \* focus_areas.join throws a TypeError; nothing catches it in a timer
            \* callback and the process exits
            /\ crashed' = TRUE
            /\ jobs' = [jobs EXCEPT ![j].state = "threw", ![j].firedAt = now]
            /\ insights' = insights
       ELSE
            LET insight == [id |-> MkId("insight", now, 0), clientId |-> jobs[j].clientId,
                            type |-> "opportunity", confidence |-> GeneratedConfidence]
            IN
            /\ insights' = MapSet(insights, insight.id, insight)
            /\ jobs' = [jobs EXCEPT ![j].state = "stored", ![j].firedAt = now]
            /\ crashed' = crashed
    /\ UNCHANGED <<passed, now, advances, nreq, users, clients, revenueRecords,
                   integrations, seedPending, regs, logins, tokens, registered, resp>>

----------------------------------------------------------------------------
(* Integrations *)

\* GET /api/v1/integrations
ListIntegrations ==
    /\ Routed
    /\ passed' = NoPassed
    /\ LET cid == ReqUser.clientId
           own == {x \in MapValues(integrations) : x.clientId = cid}
       IN
       resp' = Response("listIntegrations", 200, NoHeader, ReqUser, NoReq, {x.clientId : x \in own},
                        [k |-> "integrations", data |-> own])
    /\ UNCHANGED state

\* POST /api/v1/integrations/connect/:provider
ConnectIntegration(provider) ==
    /\ Routed
    /\ passed' = NoPassed
    /\ nreq < MaxRequests
    /\ nreq' = nreq + 1
    /\ LET integration == [id |-> MkId("int", now, RandomSuffix(nreq')),
                           clientId |-> ReqUser.clientId, provider |-> provider,
                           status |-> "connected"]
       IN
       /\ integrations' = MapSet(integrations, integration.id, integration)
       /\ resp' = Response("connectIntegration", 201, NoHeader, ReqUser,
                           [k |-> "connectIntegration", provider |-> provider],
                           {integration.clientId},
                           [k |-> "integration", integration |-> integration])
    /\ UNCHANGED <<now, advances, crashed, users, clients, revenueRecords, insights,
                   seedPending, regs, logins, jobs, tokens, registered>>

----------------------------------------------------------------------------
(* Attribution, SEO, churn *)

\* the channels and their shares of totalRevenue, in hundredths
Channels == <<"google_organic", "linkedin_ads", "direct", "referral">>
ChannelShare == <<38, 29, 18, 15>>

\* totalRevenue * share: a JS number, kept in hundredths
Attributed(total, share) == IF total.nan THEN NaN ELSE Num(total.v * share)

\* ((ch.attributed_revenue / totalRevenue) * 100).toFixed(1)
AttributionPercentage(attributed, total) ==
    PercentToFixed1(attributed, IF total.nan THEN NaN ELSE Num(total.v * 100))

\* POST /api/v1/attribution/calculate
Attribution(model) ==
    /\ Routed
    /\ passed' = NoPassed
    /\ LET cid == ReqUser.clientId
           S == ClientRecords(revenueRecords, cid)
           total == SumAmounts(S)
       IN
       resp' = Response("attribution", 200, NoHeader, ReqUser, [k |-> "attribution", model |-> model],
                        {r.clientId : r \in S},
                        [k |-> "attribution",
                         model |-> IF Truthy(model) THEN model ELSE "markov_chain",
                         total_revenue |-> total,
                         channels |->
                           [c \in 1 .. Len(Channels) |->
                              [channel |-> Channels[c],
                               attributed_revenue |-> Attributed(total, ChannelShare[c]),
                               attribution_percentage |->
                                 AttributionPercentage(Attributed(total, ChannelShare[c]),
                                                       total)]]])
    /\ UNCHANGED state

\* GET /api/v1/seo/rankings
SeoRankings ==
    /\ Routed
    /\ passed' = NoPassed
    /\ resp' = Response("seoRankings", 200, NoHeader, ReqUser, NoReq, {},
                        [k |-> "rankings",
                         keywords |-> {"revenue intelligence", "marketing analytics"}])
    /\ UNCHANGED state

\* the body field client_ids: absent, an array of client ids, or a JSON number
\* (truthy, without a method `includes`)
NoFilter == [given |-> FALSE, array |-> TRUE, ids |-> {}]
IdFilter(ids) == [given |-> TRUE, array |-> TRUE, ids |-> ids]
NumberFilter == [given |-> TRUE, array |-> FALSE, ids |-> {}]

\* POST /api/v1/predict/churn
ChurnPredict(client_ids) ==
    /\ Routed
    /\ passed' = NoPassed
    /\ LET predicted == {c \in MapValues(clients) :
                           ~client_ids.given \/ c.id \in client_ids.ids}
           req == [k |-> "churn", client_ids |-> client_ids]
       IN
       IF client_ids.given /\ ~client_ids.array /\ MapValues(clients) # {} THEN
            \* client_ids.includes is not a function: the catch block answers 500
            resp' = Response("churn", 500, NoHeader, ReqUser, req, {}, NoBody)
       ELSE
            resp' = Response("churn", 200, NoHeader, ReqUser, req,
                             {c.id : c \in predicted},
                             [k |-> "churn", client_ids |-> {c.id : c \in predicted}])
    /\ UNCHANGED state

----------------------------------------------------------------------------

\* the inputs of the requests
\* <<email, password, clientId>>
RegisterInputs ==
    {<<DemoEmail, DemoPassword, NoId>>, <<OtherEmail, DemoPassword, NoId>>,
     <<OtherEmail, DemoPassword, DemoClientId>>, <<OtherEmail, "<123>", NoId>>,
     <<"", DemoPassword, NoId>>, <<OtherEmail, "", NoId>>}
\* <<email, password>>
LoginInputs ==
    {<<DemoEmail, DemoPassword>>, <<OtherEmail, DemoPassword>>, <<DemoEmail, "hunter2">>,
     <<"", DemoPassword>>, <<DemoEmail, "">>}
RecordDate == "2026-03-01"
\* <<date, source, amount>>
RecordInputs ==
    {<<RecordDate, "", AmountNum(1000)>>, <<RecordDate, "", AmountNum(-2000)>>,
     <<RecordDate, "", AmountText>>, <<RecordDate, "toString", AmountNum(1000)>>,
     <<"", "", AmountNum(1000)>>, <<RecordDate, "", AmountAbsent>>,
     <<RecordDate, "", AmountNum(0)>>}
PeriodsInputs == {PeriodsAbsent, PeriodsDigits(3)}
CompanyNames == {"", "Acme"}
\* <<type, limit, min_confidence>>
InsightQueries == {<<"", "", 0>>, <<"warning", "1", 90>>}
FocusAreas == {"absent", "array"}
Providers == {"stripe"}
Models == {"", "last_touch"}
ChurnFilters == {NoFilter, IdFilter({DemoClientId})}

Next ==
    \/ SeedUserDone
    \/ \E d \in ClockSteps : Advance(d)
    \/ ResponseSent
    \/ \E in \in RegisterInputs : RegisterStart(in[1], in[2], in[3])
    \/ \E q \in regs : RegisterFinish(q)
    \/ \E in \in LoginInputs : LoginStart(in[1], in[2])
    \/ \E q \in logins : LoginFinish(q)
    \/ \E h \in Headers : Authenticate(h)
    \/ Summary
    \/ \E p \in PeriodsInputs : Forecast(p)
    \/ \E in \in RecordInputs : CreateRecord(in[1], in[2], in[3])
    \/ ListClients
    \/ \E c \in DOMAIN clients \cup {UnknownClientId} : GetClient(c)
    \/ \E n \in CompanyNames : CreateClient(n)
    \/ \E in \in InsightQueries : LatestInsights(in[1], in[2], in[3])
    \/ \E f \in FocusAreas : GenerateInsight(f)
    \/ \E j \in 1 .. Len(jobs) : TimerFire(j)
    \/ ListIntegrations
    \/ \E p \in Providers : ConnectIntegration(p)
    \/ \E m \in Models : Attribution(m)
    \/ SeoRankings
    \/ \E f \in ChurnFilters : ChurnPredict(f)

Spec == Init /\ [][Next]_vars

----------------------------------------------------------------------------
(* The credential endpoints alone: no other route reads or writes `users` *)

NextAuth ==
    \/ SeedUserDone
    \/ \E d \in ClockSteps : Advance(d)
    \/ ResponseSent
    \/ \E in \in RegisterInputs : RegisterStart(in[1], in[2], in[3])
    \/ \E q \in regs : RegisterFinish(q)
    \/ \E in \in LoginInputs : LoginStart(in[1], in[2])
    \/ \E q \in logins : LoginFinish(q)

SpecAuth == Init /\ [][NextAuth]_vars

----------------------------------------------------------------------------
(* The forecast handler on its own, over every form of `periods` *)

\* the user that a register request without clientId creates at time 0
OtherUser ==
    [id |-> MkId("user", 0, RandomSuffix(1)), email |-> OtherEmail,
     password |-> BcryptHash(DemoPassword), clientId |-> MkId("client", 0, 0),
     role |-> "admin"]

\* the server after the seed, one registration and one login of the demo user
InitForecast ==
    /\ now = 0
    /\ advances = 0
    /\ nreq = 2
    /\ crashed = FALSE
    /\ users = MapSet(MapSet(EmptyMap, DemoEmail, DemoUser), OtherEmail, OtherUser)
    /\ clients = MapSet(EmptyMap, DemoClientId, DemoClient)
    /\ \E src \in [SeedRecordIds -> SeedSources], amt \in [SeedRecordIds -> SeedAmounts] :
         revenueRecords =
           [id \in SeedRecordIds |->
              [id |-> id, clientId |-> DemoClientId, source |-> src[id],
               amount |-> Num(amt[id])]]
    /\ integrations = EmptyMap
    /\ \E ty \in [SeedInsightIds -> SeedInsightTypes],
          cf \in [SeedInsightIds -> SeedConfidences] :
         insights =
           [id \in SeedInsightIds |->
              [id |-> id, clientId |-> DemoClientId, type |-> ty[id],
               confidence |-> cf[id]]]
    /\ seedPending = FALSE
    /\ regs = {}
    /\ logins = {}
    /\ jobs = <<>>
    /\ tokens = {JwtSign(OtherUser, 0), JwtSign(DemoUser, 0)}
    /\ registered = {OtherEmail}
    /\ passed = NoPassed
    /\ resp = NoResponse

PeriodsAll ==
    {PeriodsAbsent, PeriodsText}
    \cup {PeriodsDigits(n) : n \in 0 .. MaxPeriods}
    \cup {PeriodsHalf(n) : n \in 0 .. MaxPeriods}

NextForecast ==
    \/ \E d \in ClockSteps : Advance(d)
    \/ ResponseSent
    \/ \E h \in Headers : Authenticate(h)
    \/ \E p \in PeriodsAll : Forecast(p)

SpecForecast == InitForecast /\ [][NextForecast]_vars

----------------------------------------------------------------------------
(* Protected routes on their own, for two tenants that hold a token *)

\* the stores after the seed, one registration and one login of the demo user;
\* the count of writing requests starts afresh
InitRoutes ==
    /\ now = 0
    /\ advances = 0
    /\ nreq = 0
    /\ crashed = FALSE
    /\ users = MapSet(MapSet(EmptyMap, DemoEmail, DemoUser), OtherEmail, OtherUser)
    /\ clients = MapSet(EmptyMap, DemoClientId, DemoClient)
    /\ \E src \in [SeedRecordIds -> SeedSources], amt \in [SeedRecordIds -> SeedAmounts] :
         revenueRecords =
           [id \in SeedRecordIds |->
              [id |-> id, clientId |-> DemoClientId, source |-> src[id],
               amount |-> Num(amt[id])]]
    /\ integrations = EmptyMap
    /\ \E ty \in [SeedInsightIds -> SeedInsightTypes],
          cf \in [SeedInsightIds -> SeedConfidences] :
         insights =
           [id \in SeedInsightIds |->
              [id |-> id, clientId |-> DemoClientId, type |-> ty[id],
               confidence |-> cf[id]]]
    /\ seedPending = FALSE
    /\ regs = {}
    /\ logins = {}
    /\ jobs = <<>>
    /\ tokens = {JwtSign(OtherUser, 0), JwtSign(DemoUser, 0)}
    /\ registered = {OtherEmail}
    /\ passed = NoPassed
    /\ resp = NoResponse

\* the routes that read or write the revenue ledger
NextLedger ==
    \/ \E d \in ClockSteps : Advance(d)
    \/ ResponseSent
    \/ \E h \in Headers : Authenticate(h)
    \/ \E in \in RecordInputs : CreateRecord(in[1], in[2], in[3])
    \/ Summary

SpecLedger == InitRoutes /\ [][NextLedger]_vars

----------------------------------------------------------------------------
(* The read routes over every form of their inputs, next to the writing routes *)

\* <<type, limit, min_confidence>>
InsightQueriesAll ==
    {<<t, l, m>> : t \in {"", "warning", "opportunity"}, l \in {"", "1", "abc"},
                   m \in {0, 90}}
ChurnFiltersAll == {NoFilter, NumberFilter, IdFilter({}), IdFilter({DemoClientId})}

NextReads ==
    \/ \E d \in ClockSteps : Advance(d)
    \/ ResponseSent
    \/ \E h \in Headers : Authenticate(h)
    \/ Summary
    \/ \E p \in PeriodsAll : Forecast(p)
    \/ ListClients
    \/ \E c \in DOMAIN clients \cup {UnknownClientId} : GetClient(c)
    \/ \E in \in InsightQueriesAll : LatestInsights(in[1], in[2], in[3])
    \/ ListIntegrations
    \/ \E m \in Models : Attribution(m)
    \/ SeoRankings
    \/ \E f \in ChurnFiltersAll : ChurnPredict(f)
    \/ \E in \in RecordInputs : CreateRecord(in[1], in[2], in[3])
    \/ \E n \in CompanyNames : CreateClient(n)
    \/ \E f \in FocusAreas : GenerateInsight(f)
    \/ \E j \in 1 .. Len(jobs) : TimerFire(j)
    \/ \E p \in Providers : ConnectIntegration(p)

SpecReads == InitForecast /\ [][NextReads]_vars

----------------------------------------------------------------------------
(* Properties *)

\* a protected handler answered with success
Served == resp.user # NoToken /\ resp.status \in 200 .. 299

\* C1: a successful answer of a protected endpoint holds only records of the
\* tenant in the caller's verified token (a client that the request itself
\* creates is the one record that is nobody's before the request).
C1_TenantIsolation ==
    (Served /\ resp.ep # "createClient") => resp.owners \subseteq {resp.user.clientId}

\* C1: the client list answered to a caller of another tenant holds the demo
\* client's record.
C1_ForeignClientListed ==
    /\ Served
    /\ resp.ep = "listClients"
    /\ resp.user.clientId # DemoClientId
    /\ DemoClientId \in resp.owners

\* C2: a register handler that was suspended at the hash while another handler
\* for the same email answered 201 answers 409.
C2_LoserGetsConflict ==
    (resp.ep = "register" /\ resp.req.raced /\ IsString(resp.req.password))
        => resp.status = 409

\* C2: both of two racing register requests for one email answered 201.
C2_BothCreated == resp.ep = "register" /\ resp.req.raced /\ resp.status = 201

\* C3: a register request with an email and a non-empty password that arrives
\* after a register request for the same email answered 201 is answered 409.
C3_ConflictAfterRegistered ==
    (/\ resp.ep = "register"
     /\ resp.req.prior201
     /\ Truthy(resp.req.password))
        => resp.status = 409

\* C3: a register request for an already registered email was answered 409.
C3_SecondRegistrationAnswered ==
    /\ resp.ep = "register"
    /\ resp.req.prior201
    /\ Truthy(resp.req.password)
    /\ resp.status = 409
    /\ resp.req.email \in registered

\* C4: the token of every register or login answer passes authenticateToken,
\* which recovers the clientId and role embedded in it, and these are the
\* clientId and role of the stored user record of the token's email.
C4_RoundTrip ==
    (resp.ep \in {"register", "login"} /\ resp.body.k = "token") =>
        LET t == resp.body.token
            a == authenticateToken(TwoWords("Bearer", t), now)
        IN
        /\ a.code = 0
        /\ a.user.clientId = t.clientId
        /\ a.user.role = t.role
        /\ MapHas(users, t.email)
        /\ users[t.email].clientId = t.clientId
        /\ users[t.email].role = t.role

\* C4: a login answers a token whose tenant id is not the one of the stored
\* user record of its email.
C4_StaleToken ==
    /\ resp.ep = "login"
    /\ resp.status = 200
    /\ authenticateToken(TwoWords("Bearer", resp.body.token), now).code = 0
    /\ users[resp.body.token.email].clientId # resp.body.token.clientId

\* C5: only a request whose Authorization header is 'Bearer <token>' reaches a
\* handler; authenticateToken answers 401 to an absent header and to a header
\* without a second word, 403 to 'Bearer <token>' with a bad signature or an
\* expired token, and nothing but 401 or 403.
C5_OnlyBearerPasses ==
    /\ passed.some => (passed.hdr.kind = "two" /\ passed.hdr.scheme = "Bearer")
    /\ resp.ep = "authenticateToken" =>
         /\ resp.status \in {401, 403}
         /\ resp.hdr.kind # "two" => resp.status = 401
         /\ (resp.hdr.kind = "two" /\ resp.hdr.scheme = "Bearer") => resp.status = 403

\* C5: authenticateToken has handed a request with a 'Basic' header to a handler.
C5_BasicPassed == passed.some /\ passed.hdr.kind = "two" /\ passed.hdr.scheme = "Basic"

\* C6: every insights/generate callback that has run has stored an insight of
\* the requesting tenant, and the insight was not stored when the request was
\* answered 202.
C6_CallbackStores ==
    /\ \A j \in 1 .. Len(jobs) :
         jobs[j].state # "pending" =>
            /\ jobs[j].state = "stored"
            /\ jobs[j].firedAt >= jobs[j].due
            /\ \E x \in MapValues(insights) :
                 x.id = MkId("insight", jobs[j].firedAt, 0) /\ x.clientId = jobs[j].clientId
    /\ resp.ep = "generateInsight" =>
         /\ resp.status = 202
         /\ jobs[resp.body.job].state = "pending"
         /\ ~MapHas(insights, MkId("insight", jobs[resp.body.job].due, 0))

\* C6: a callback threw, the process is gone and the insight was never stored.
C6_CallbackThrew ==
    /\ crashed
    /\ \E j \in 1 .. Len(jobs) :
         /\ jobs[j].state = "threw"
         /\ ~\E x \in MapValues(insights) :
               x.id.p = "insight" /\ x.clientId = jobs[j].clientId

\* the records that POST /revenue/records created for a tenant with amount 1000
Created1000(cid) ==
    {r \in ClientRecords(revenueRecords, cid) : r.id.p = "record" /\ r.amount = Num(1000)}

\* C7: a summary for a tenant for which a record of amount 1000 was created
\* reports a total_revenue of at least 1000.
C7_TotalAtLeast1000 ==
    (resp.ep = "summary" /\ Created1000(resp.user.clientId) # {})
        => (~resp.body.total_revenue.nan /\ resp.body.total_revenue.v >= 1000)

\* C7: a summary after a created record of 1000 reports less than 1000, or NaN.
C7_TotalBelow1000 ==
    /\ resp.ep = "summary"
    /\ Created1000(resp.user.clientId) # {}
    /\ (resp.body.total_revenue.nan \/ resp.body.total_revenue.v < 1000)

\* the sum of the percentages of a by_source list, in tenths
RECURSIVE SumTenths(_, _)
SumTenths(by, S) ==
    IF S = {} THEN 0
    ELSE LET src == CHOOSE x \in S : TRUE IN
         by[src].percentage.tenths + SumTenths(by, S \ {src})

\* C8: when the total of a summary is positive, its by_source percentages are
\* numbers that sum to 100 within half a tenth for each source.
C8_PercentagesSumTo100 ==
    (/\ resp.ep = "summary"
     /\ ~resp.body.total_revenue.nan
     /\ resp.body.total_revenue.v > 0)
        => LET by == resp.body.by_source IN
           /\ \A src \in DOMAIN by : by[src].percentage.k = "num"
           /\ 2 * Abs(SumTenths(by, DOMAIN by) - 1000) <= Cardinality(DOMAIN by)

\* C8: a summary with a positive total and an empty by_source list.
C8_NoSources ==
    /\ resp.ep = "summary"
    /\ ~resp.body.total_revenue.nan
    /\ resp.body.total_revenue.v > 0
    /\ DOMAIN resp.body.by_source = {}

\* C9: the four attribution percentages of every attribution answer are numbers
\* that sum to 100.
C9_AttributionSumsTo100 ==
    resp.ep = "attribution" =>
        LET ch == resp.body.channels IN
        /\ \A c \in DOMAIN ch : ch[c].attribution_percentage.k = "num"
        /\ ch[1].attribution_percentage.tenths + ch[2].attribution_percentage.tenths
           + ch[3].attribution_percentage.tenths + ch[4].attribution_percentage.tenths
           = 1000

\* C9: an attribution answer for a tenant without records: every percentage is
\* the string "NaN".
C9_NaNPercentages ==
    /\ resp.ep = "attribution"
    /\ ClientRecords(revenueRecords, resp.user.clientId) = {}
    /\ \A c \in DOMAIN resp.body.channels :
         resp.body.channels[c].attribution_percentage.k = "NaN"

\* C10: a forecast for periods = n, n a positive integer, has exactly n entries,
\* the entries of i = 1 .. n in order; the confidence of entry i is
\* max(95 - 5 i, 70) hundredths, never grows with i and is never below 70.
C10_ForecastEntries ==
    (/\ resp.ep = "forecast"
     /\ resp.req.periods.k = "digits"
     /\ resp.req.periods.v >= 1)
        => LET f == resp.body.forecast
               n == resp.req.periods.v
           IN
           /\ resp.status = 200
           /\ Len(f) = n
           /\ \A i \in 1 .. n :
                /\ f[i].i = i
                /\ f[i].month = i + 2
                /\ f[i].confidence = (IF 95 - 5 * i >= 70 THEN 95 - 5 * i ELSE 70)
                /\ f[i].confidence >= 70
                /\ i < n => f[i + 1].confidence <= f[i].confidence

\* C10: a forecast for periods = 8 was answered: the floor of 70 is reached.
C10_LongForecast ==
    /\ resp.ep = "forecast"
    /\ resp.req.periods = PeriodsDigits(8)
    /\ Len(resp.body.forecast) = 8
    /\ resp.body.forecast[8].confidence = 70
    /\ resp.body.forecast[1].confidence = 90

\* the step in which POST /revenue/records answers 201
RecordCreated == resp.ep = "none" /\ resp'.ep = "createRecord" /\ resp'.status = 201

\* C11: no step modifies, replaces or removes a record of the ledger; the step
\* in which POST /revenue/records answers 201 adds exactly one record, under an
\* id that was not in the ledger, tagged with the clientId of the caller's
\* token; no other step adds a record.
C11_AppendOnly ==
    [][/\ \A id \in DOMAIN revenueRecords :
             id \in DOMAIN revenueRecords' /\ revenueRecords'[id] = revenueRecords[id]
       /\ Cardinality(DOMAIN revenueRecords') >= Cardinality(DOMAIN revenueRecords)
       /\ RecordCreated =>
            \E id \in DOMAIN revenueRecords' \ DOMAIN revenueRecords :
               /\ DOMAIN revenueRecords' = DOMAIN revenueRecords \cup {id}
               /\ revenueRecords'[id].id = id
               /\ revenueRecords'[id].clientId = passed.user.clientId
               /\ revenueRecords'[id] = resp'.body.record
       /\ ~RecordCreated => revenueRecords' = revenueRecords]_vars

\* C11: two tenants have each created a record in the same millisecond, next to
\* the seeded records.
C11_TwoCreated ==
    /\ resp.ep = "createRecord"
    /\ resp.status = 201
    /\ \E a, b \in MapValues(revenueRecords) :
         /\ a.id.p = "record" /\ b.id.p = "record"
         /\ a.id.t = b.id.t
         /\ a.clientId # b.clientId
    /\ SeedRecordIds \subseteq DOMAIN revenueRecords

ReadEndpoints ==
    {"summary", "forecast", "attribution", "churn", "listClients", "getClient",
     "latestInsights", "listIntegrations", "seoRankings"}

\* C12: the step in which a read handler answers, with success or with an
\* error, leaves users, clients, revenueRecords, integrations and insights as
\* they were.
C12_ReadsChangeNoStore ==
    [][(resp.ep = "none" /\ resp'.ep \in ReadEndpoints) =>
          /\ users' = users
          /\ clients' = clients
          /\ revenueRecords' = revenueRecords
          /\ integrations' = integrations
          /\ insights' = insights]_vars

\* C12: churn prediction has answered 500 after a record was added to the ledger.
C12_ReadFailed ==
    /\ resp.ep = "churn"
    /\ resp.status = 500
    /\ Cardinality(DOMAIN revenueRecords) > Cardinality(SeedRecordIds)

\* C13: no step replaces, updates or removes a user record stored under an
\* email.
C13_RecordsKept ==
    [][\A e \in DOMAIN users : e \in DOMAIN users' /\ users'[e] = users[e]]_vars

\* C13: a register request has answered 201 for an email, and the record now
\* stored under that email has another user id than the one in the token that
\* the answer carried.
C13_UserReplaced ==
    \E t \in tokens :
        /\ t.userId.p = "user"
        /\ MapHas(users, t.email)
        /\ users[t.email].id # t.userId

\* the insights that the callbacks of insights/generate stored for a tenant
Generated(cid) == {x \in MapValues(insights) : x.id.p = "insight" /\ x.clientId = cid}

\* the callbacks that ran for a tenant
Ran(cid) == {j \in 1 .. Len(jobs) : jobs[j].state = "stored" /\ jobs[j].clientId = cid}

\* C14: once the callbacks of all accepted insights/generate requests have run,
\* the store holds one generated insight for each request, tagged with the
\* tenant of that request.
C14_OneInsightPerRequest ==
    (\A j \in 1 .. Len(jobs) : jobs[j].state = "stored") =>
        \A j \in 1 .. Len(jobs) :
            Cardinality(Generated(jobs[j].clientId)) = Cardinality(Ran(jobs[j].clientId))

\* C14: the callbacks of two requests ran at the same clock instant and the
\* store holds a single generated insight.
C14_Overwritten ==
    /\ Len(jobs) = 2
    /\ jobs[1].state = "stored" /\ jobs[2].state = "stored"
    /\ jobs[1].firedAt = jobs[2].firedAt
    /\ Cardinality({x \in MapValues(insights) : x.id.p = "insight"}) = 1

====
